---- MODULE Spec2Model ----
(***************************************************************************)
(* A model of main_json.py: the upload of a parent table with nested       *)
(* repeat groups to a form-submission API.                                 *)
(*                                                                         *)
(* Python values are encoded uniformly as records                          *)
(*     [kind, s, n, items, elems]                                          *)
(* kind  "str"   s is the text                                             *)
(*       "int"   n is the number                                           *)
(*       "nan"   the missing-value sentinel of a table cell                *)
(*       "none"  None                                                      *)
(*       "dict"  items is the mapping key -> value                         *)
(*       "list"  elems is the sequence of values                           *)
(*       "df"    a loaded DataFrame, s is the path it was read from        *)
(*       "exc"   a raised exception, s is its class                        *)
(*       "resp"  an HTTP response, n the status code, s the body, items    *)
(*               the headers                                               *)
(*       "absent" a key that is not in the enclosing mapping               *)
(***************************************************************************)
EXTENDS Integers, Sequences, FiniteSets, TLC

VARIABLES
    config_readable,  \* whether ./config/config.json can be read and parsed
    config_data,      \* the configuration document
    parent_file,      \* the parent workbook: [readable, rows]
    child_rows,       \* the rows of the readable child workbook
    pc,               \* position of main
    parent_df,        \* main: the loaded parent table
    repeat_groups,    \* main: the resolved repeat-group tree
    endpoint,         \* main: the endpoint the payloads are posted to
    idx,              \* main: index of the parent row in the loop
    groups_payload,   \* create_payload: the group payload of the current row
    payload,          \* main: the payload of the current row
    retries_total,    \* Retry.total of the request being sent
    attempts,         \* POSTs issued for the current row
    last_outcome,     \* how the server answered the latest POST
    server_next,      \* how the server will answer the next POST
    first_503_then_201, \* history: the server's answers to the current row
                      \* are 503 to the first POST and 201 to the second
    response,         \* main: the response, or the exception raised by the send
    failed_logs,      \* main: the Failure Records
    success_log,      \* the rows logged as "Success"
    writes,           \* number of calls of to_excel on the failure table
    failed_file,      \* ./logs/failed_logs.xlsx
    error_logged      \* whether the error of the failure-table write is logged

vars == <<config_readable, config_data, parent_file, child_rows, pc, parent_df,
          repeat_groups, endpoint, idx, groups_payload, payload, retries_total,
          attempts, last_outcome, server_next, first_503_then_201, response,
          failed_logs, success_log, writes, failed_file, error_logged>>

----------------------------------------------------------------------------
(* Bounds *)

MaxRows == 2        \* parent rows of a run
MaxChildren == 2    \* rows of the child workbook
MaxDepth == 2       \* containers nested inside a top-level group

----------------------------------------------------------------------------
(* Python values *)

EmptyDict == [k \in {} |-> 0]

PyVal(kind, s, n, items, elems) ==
    [kind |-> kind, s |-> s, n |-> n, items |-> items, elems |-> elems]

PyStr(s) == PyVal("str", s, 0, EmptyDict, <<>>)
PyInt(n) == PyVal("int", "", n, EmptyDict, <<>>)
PyNaN == PyVal("nan", "", 0, EmptyDict, <<>>)
PyNone == PyVal("none", "", 0, EmptyDict, <<>>)
PyDict(f) == PyVal("dict", "", 0, f, <<>>)
PyList(l) == PyVal("list", "", 0, EmptyDict, l)
PyDataFrame(path) == PyVal("df", path, 0, EmptyDict, <<>>)
PyExc(class) == PyVal("exc", class, 0, EmptyDict, <<>>)
\* a response: status code, body and headers
PyResponse(status, text, headers) == PyVal("resp", text, status, headers, <<>>)
Absent == PyVal("absent", "", 0, EmptyDict, <<>>)

IsDict(v) == v.kind = "dict"
Has(v, key) == key \in DOMAIN v.items
\* dict.get(key, default)
Get(v, key, default) == IF Has(v, key) THEN v.items[key] ELSE default

\* pandas' == on cells: values of different types differ and the missing
\* value equals nothing, itself included
PyEq(a, b) ==
    /\ a.kind = b.kind
    /\ a.kind \in {"str", "int"}
    /\ a.s = b.s
    /\ a.n = b.n

isna(value) == value.kind \in {"nan", "none"}

\* the message of an exception of the given class
ExcMessage(class) ==
    CASE class = "ConnectionError" -> "Max retries exceeded with url (connection failed)"
      [] class = "RetryError" -> "Max retries exceeded with url (too many error responses)"
      [] class = "HTTPClientError" -> "Client Error for url"
      [] class = "HTTPServerError" -> "Server Error for url"
      [] OTHER -> class

\* str(value); the string form of an exception is its message
str(value) ==
    CASE value.kind = "str" -> value.s
      [] value.kind = "int" -> ToString(value.n)
      [] value.kind = "exc" -> ExcMessage(value.s)
      [] OTHER -> value.kind

safe_str(value) == IF isna(value) THEN "" ELSE str(value)

----------------------------------------------------------------------------
(* Tables *)

ChildPath == "children.xlsx"
MissingPath == "missing.xlsx"
ChildColumns == {"Parent_ID", "Name"}

\* pd.read_excel: the DataFrame, or the exception it raises
read_excel(path) ==
    IF path.kind = "str" /\ path.s = ChildPath
    THEN PyDataFrame(ChildPath)
    ELSE PyExc("FileNotFoundError")

\* the rows of a loaded DataFrame; one workbook is readable
Rows(child_df) == child_rows

----------------------------------------------------------------------------
(* Repeat-group payloads *)

KeepAllChildren(parent_record, child, filter_column) == TRUE

\* child_df[filter_column] == parent_record['ID'], for one child row
MatchesParent(parent_record, child, filter_column) ==
    PyEq(child[filter_column], parent_record["ID"])

RECURSIVE MatchingChildren(_, _, _)
\* the rows of the table that match the parent, in table order
MatchingChildren(parent_record, rows, filter_column) ==
    IF rows = <<>> THEN <<>>
    ELSE LET rest == MatchingChildren(parent_record, Tail(rows), filter_column)
         IN IF MatchesParent(parent_record, Head(rows), filter_column)
            THEN <<Head(rows)>> \o rest
            ELSE rest

\* one child_entry: api_field -> safe_str(getattr(child, df_column))
ChildEntry(child, field_mapping) ==
    PyDict([api_field \in DOMAIN field_mapping.items |->
               PyStr(safe_str(child[field_mapping.items[api_field].s]))])

create_repeat_group_payload(parent_record, child_df, filter_column, field_mapping) ==
    IF child_df.kind # "df" \/ filter_column.kind # "str"
          \/ filter_column.s \notin ChildColumns
    THEN PyExc("KeyError")
    ELSE LET matching_children ==
                 MatchingChildren(parent_record, Rows(child_df), filter_column.s)
         IN IF /\ matching_children # <<>>
               /\ \E api_field \in DOMAIN field_mapping.items :
                      field_mapping.items[api_field].s \notin ChildColumns
            THEN PyExc("AttributeError")
            ELSE PyList([i \in 1..Len(matching_children) |->
                           ChildEntry(matching_children[i], field_mapping)])

----------------------------------------------------------------------------
(* The resolver of the repeat-group configuration *)

DefaultFilterColumn == PyStr("Parent_ID")

\* lines 143-151: the processed leaf, or Absent when the load or the lookup
\* of "fields" raises inside the try
ProcessLeaf(value) ==
    LET child_df == read_excel(value.items["data_path"])
    IN IF child_df.kind = "exc" \/ ~Has(value, "fields")
       THEN Absent
       ELSE PyDict(("data" :> child_df)
                   @@ ("filter_column" :> Get(value, "filter_column", DefaultFilterColumn))
                   @@ ("fields" :> value.items["fields"]))

RECURSIVE process_repeat_groups_config_recursive(_)
process_repeat_groups_config_recursive(repeat_groups_config) ==
    LET processed_value(key) ==
            LET value == repeat_groups_config.items[key]
            IN IF IsDict(value)
               THEN IF Has(value, "data_path")
                    THEN ProcessLeaf(value)
                    ELSE LET nested == process_repeat_groups_config_recursive(value)
                         IN IF DOMAIN nested.items # {} THEN nested ELSE Absent
               ELSE Absent
        kept == {key \in DOMAIN repeat_groups_config.items :
                    processed_value(key).kind # "absent"}
    IN PyDict([key \in kept |-> processed_value(key)])

----------------------------------------------------------------------------
(* The payload builder *)

RECURSIVE build_repeat_groups_payload_recursive(_, _)

\* lines 174-184 for one (key, value): the value stored under the key, the
\* exception raised, or Absent when the entry is skipped
BuildGroup(parent_record, value) ==
    IF IsDict(value) /\ Has(value, "data")
    THEN IF ~Has(value, "fields")
         THEN PyExc("KeyError")
         ELSE create_repeat_group_payload(parent_record, value.items["data"],
                  Get(value, "filter_column", DefaultFilterColumn),
                  value.items["fields"])
    ELSE IF IsDict(value)
         THEN build_repeat_groups_payload_recursive(parent_record, value)
         ELSE Absent

build_repeat_groups_payload_recursive(parent_record, groups_config) ==
    LET built == [key \in DOMAIN groups_config.items |->
                     BuildGroup(parent_record, groups_config.items[key])]
        raised == {key \in DOMAIN built : built[key].kind = "exc"}
        stored == {key \in DOMAIN built : built[key].kind # "absent"}
    IN IF raised # {}
       THEN built[CHOOSE key \in raised : TRUE]
       ELSE PyDict([key \in stored |-> built[key]])

\* uuid.uuid4() of the n-th call, rendered as f"uuid:{...}"
InstanceID(n) ==
    PyStr(<<"uuid:0a", "uuid:1b", "uuid:2c", "uuid:3d", "uuid:4e">>[n + 1])

\* lines 204-214: in a dict display a later key replaces an earlier one
create_payload(parent_record, groups_config, project_uuid, formhub_uuid, form_version, calls) ==
    LET groups == build_repeat_groups_payload_recursive(parent_record, groups_config)
    IN IF groups.kind = "exc"
       THEN groups
       ELSE PyDict(
                ("id" :> PyStr(project_uuid))
             @@ ("submission" :> PyDict(
                      ("__version__" :> PyStr(form_version))
                   @@ ("meta" :> PyDict("instanceID" :> InstanceID(calls)))
                   @@ groups.items
                   @@ ("formhub" :> PyDict("uuid" :> PyStr(formhub_uuid)))
                   @@ ("ID" :> PyStr(safe_str(parent_record["ID"])))
                   @@ ("Family_ID" :> PyStr(safe_str(parent_record["Family_ID"]))))))

----------------------------------------------------------------------------
(* Delivery *)

DefaultEndpoint == [scheme |-> "https", rest |-> "kobocat.unhcr.org/api/v1/submissions"]
NoEndpoint == [scheme |-> "", rest |-> ""]

RetryTotal == 5
StatusForcelist == {500, 502, 503, 504}
RetryAfterStatusCodes == {413, 429, 503}

\* the Retry of the adapter that serves the url: the one mounted on
\* 'https://' at line 65, or the session's default adapter, which never
\* retries
AdapterRetries(url) ==
    IF url.scheme = "https"
    THEN [total |-> RetryTotal, status_forcelist |-> StatusForcelist]
    ELSE [total |-> 0, status_forcelist |-> {}]

has_retry_after(resp) == "Retry-After" \in DOMAIN resp.items

\* Retry.is_retry for a POST, which is in allowed_methods
is_retry(retries, resp) ==
    \/ resp.n \in retries.status_forcelist
    \/ /\ retries.total # 0
       /\ has_retry_after(resp)
       /\ resp.n \in RetryAfterStatusCodes

is_exhausted_late(total) == total < -1

\* Retry.is_exhausted, of the Retry that increment() returns
is_exhausted(total) == total < 0

\* Response.raise_for_status: the HTTPError raised, or PyNone
raise_for_status(resp) ==
    IF 400 <= resp.n /\ resp.n < 500 THEN PyExc("HTTPClientError")
    ELSE IF 500 <= resp.n /\ resp.n < 600 THEN PyExc("HTTPServerError")
    ELSE PyNone

\* a row whose HTTP error falls through to the status branch as well
RowFailuresNoContinue(row, resp) ==
    LET raised == IF resp.kind = "exc" THEN resp ELSE raise_for_status(resp)
    IN (IF raised.kind = "exc" THEN << <<row, PyNone, safe_str(raised)>> >> ELSE <<>>)
       \o (IF resp.kind = "resp" /\ resp.n # 201
           THEN << <<row, PyInt(resp.n), resp.s>> >> ELSE <<>>)

\* a row whose exception is recorded without its string form
RowFailuresNoMessage(row, resp) ==
    LET raised == IF resp.kind = "exc" THEN resp ELSE raise_for_status(resp)
    IN IF raised.kind = "exc" THEN << <<row, PyNone, safe_str(PyNone)>> >>
       ELSE IF resp.n # 201 THEN << <<row, PyInt(resp.n), resp.s>> >>
       ELSE <<>>

\* lines 269-279: the Failure Records appended for a row, resp being what
\* send_request returned or raised
RowFailures(row, resp) ==
    LET raised == IF resp.kind = "exc" THEN resp ELSE raise_for_status(resp)
    IN IF raised.kind = "exc" THEN << <<row, PyNone, safe_str(raised)>> >>
       ELSE IF resp.n # 201 THEN << <<row, PyInt(resp.n), resp.s>> >>
       ELSE <<>>

\* lines 269-281: the rows logged as "Success"
RowSuccesses(row, resp) ==
    IF resp.kind = "resp" /\ raise_for_status(resp).kind # "exc" /\ resp.n = 201
    THEN <<row>> ELSE <<>>

AlwaysSave(logs) == TRUE

\* line 284: if failed_logs
ShouldSave(logs) == logs # <<>>

----------------------------------------------------------------------------
(* Inputs *)

NoHeaders == EmptyDict
Created == PyResponse(201, "created", NoHeaders)
Unavailable == PyResponse(503, "service unavailable", NoHeaders)
NetworkError == PyExc("ConnectionError")

\* how the server, or the network, can answer one POST
Outcomes ==
    { Created,
      PyResponse(200, "ok", NoHeaders),
      PyResponse(404, "not found", NoHeaders),
      PyResponse(429, "too many requests", "Retry-After" :> PyStr("1")),
      PyResponse(500, "internal server error", NoHeaders),
      Unavailable,
      NetworkError }

NoOutcome == PyNone

Endpoints ==
    { DefaultEndpoint, [scheme |-> "http", rest |-> "localhost:8000/api/v1/submissions"] }

ParentRow(id) == ("ID" :> id) @@ ("Family_ID" :> PyStr("F1"))
ChildRow(parent_id, name) == ("Parent_ID" :> parent_id) @@ ("Name" :> name)

ChildRowSet ==
    { ChildRow(PyStr("P1"), PyStr("Ann")), ChildRow(PyStr("P1"), PyNaN),
      ChildRow(PyStr("P2"), PyStr("Ann")), ChildRow(PyNaN, PyStr("Ann")) }

SeqsUpTo(S, n) == UNION {[1..m -> S] : m \in 0..n}

ChildTables == SeqsUpTo(ChildRowSet, MaxChildren)

NameField == PyDict("name" :> PyStr("Name"))

GoodLeaf ==
    PyDict(("data_path" :> PyStr(ChildPath)) @@ ("fields" :> NameField))
ExplicitLeaf ==
    PyDict(("data_path" :> PyStr(ChildPath))
        @@ ("filter_column" :> PyStr("Parent_ID"))
        @@ ("fields" :> PyDict(("name" :> PyStr("Name")) @@ ("parent" :> PyStr("Parent_ID")))))
UnreadableLeaf ==
    PyDict(("data_path" :> PyStr(MissingPath)) @@ ("fields" :> NameField))
NoFieldsLeaf ==
    PyDict("data_path" :> PyStr(ChildPath))
BadFilterLeaf ==
    PyDict(("data_path" :> PyStr(ChildPath))
        @@ ("filter_column" :> PyStr("Household"))
        @@ ("fields" :> NameField))
BadColumnLeaf ==
    PyDict(("data_path" :> PyStr(ChildPath))
        @@ ("fields" :> PyDict("name" :> PyStr("Nickname"))))

LeafConfigs ==
    {GoodLeaf, ExplicitLeaf, UnreadableLeaf, NoFieldsLeaf, BadFilterLeaf, BadColumnLeaf}

\* a value that is not a group
InvalidGroup == PyStr("children.xlsx")

NestedNames == {"g", "data"}
TopNames == {"g", "meta", "ID"}

RECURSIVE GroupConfigs(_)
\* group configurations with at most d containers above a leaf
GroupConfigs(d) ==
    IF d = 0 THEN LeafConfigs \cup {InvalidGroup}
    ELSE GroupConfigs(d - 1)
         \cup {PyDict(EmptyDict)}
         \cup {PyDict(k :> t) : k \in NestedNames, t \in GroupConfigs(d - 1)}
         \cup {PyDict((k :> t) @@ ("h" :> ExplicitLeaf)) :
                   k \in NestedNames, t \in GroupConfigs(d - 1)}

RepeatGroupConfigs ==
    {PyDict(k :> t) : k \in TopNames, t \in GroupConfigs(MaxDepth)}
    \cup {PyDict(("g" :> t) @@ ("meta" :> GoodLeaf)) : t \in GroupConfigs(MaxDepth)}

ConfigData(groups, child_data_path, api_endpoint) ==
    [ repeat_groups |-> groups,
      child_data_path |-> PyStr(child_data_path),
      api_endpoint |-> api_endpoint,
      project_uuid |-> "project-uuid",
      formhub_uuid |-> "formhub-uuid",
      formhub_version |-> "v1",
      api_token_UNHCR_PROD |-> "token" ]

----------------------------------------------------------------------------
(* main *)

NoFile == [exists |-> FALSE, rows |-> <<>>]

\* the state before main runs, for the given files
InitWith(readable, config, parent, children) ==
    /\ config_readable = readable
    /\ config_data = config
    /\ parent_file = parent
    /\ child_rows = children
    /\ pc = "start"
    /\ parent_df = <<>>
    /\ repeat_groups = PyDict(EmptyDict)
    /\ endpoint = NoEndpoint
    /\ idx = 0
    /\ groups_payload = PyNone
    /\ payload = PyNone
    /\ retries_total = 0
    /\ attempts = 0
    /\ last_outcome = NoOutcome
    /\ server_next = NoOutcome
    /\ first_503_then_201 = FALSE
    /\ response = PyNone
    /\ failed_logs = <<>>
    /\ success_log = <<>>
    /\ writes = 0
    /\ failed_file = NoFile
    /\ error_logged = FALSE

\* lines 224-259: load the configuration and the tables, resolve the groups
Start ==
    /\ pc = "start"
    /\ UNCHANGED <<config_readable, config_data, parent_file, child_rows, idx,
                   groups_payload, payload, retries_total, attempts, last_outcome,
                   server_next, first_503_then_201, response, failed_logs,
                   success_log, writes, failed_file, error_logged>>
    /\ IF ~config_readable
       THEN \* load_config logs and re-raises
            /\ pc' = "raised"
            /\ UNCHANGED <<parent_df, repeat_groups, endpoint>>
       ELSE IF ~parent_file.readable
       THEN /\ pc' = "returned"
            /\ UNCHANGED <<parent_df, repeat_groups, endpoint>>
       ELSE LET child_df == read_excel(config_data.child_data_path)
                fallback == PyDict("repeat_group" :> PyDict(
                                ("data" :> child_df)
                             @@ ("filter_column" :> PyStr("Parent_ID"))
                             @@ ("fields" :> NameField)))
            IN IF config_data.repeat_groups.kind = "absent" /\ child_df.kind = "exc"
               THEN /\ pc' = "returned"
                    /\ parent_df' = parent_file.rows
                    /\ UNCHANGED <<repeat_groups, endpoint>>
               ELSE /\ parent_df' = parent_file.rows
                    /\ repeat_groups' =
                          IF config_data.repeat_groups.kind # "absent"
                          THEN process_repeat_groups_config_recursive(config_data.repeat_groups)
                          ELSE fallback
                    /\ endpoint' = IF config_data.api_endpoint = NoEndpoint
                                   THEN DefaultEndpoint
                                   ELSE config_data.api_endpoint
                    /\ pc' = IF parent_file.rows = <<>> THEN "save" ELSE "build"

\* lines 262-267: the next parent row and its payload
BuildRow ==
    /\ pc = "build"
    /\ LET parent_record == parent_df[idx + 1]
           built == create_payload(parent_record, repeat_groups,
                        config_data.project_uuid, config_data.formhub_uuid,
                        config_data.formhub_version, idx)
       IN /\ groups_payload' =
                 build_repeat_groups_payload_recursive(parent_record, repeat_groups)
          /\ IF built.kind = "exc"
             THEN \* nothing in main catches it
                  /\ pc' = "raised"
                  /\ UNCHANGED <<payload, server_next>>
             ELSE /\ payload' = built
                  /\ pc' = "send"
                  /\ server_next' \in Outcomes
    /\ UNCHANGED <<config_readable, config_data, parent_file, child_rows, parent_df,
                   repeat_groups, endpoint, idx, retries_total, attempts,
                   last_outcome, first_503_then_201, response, failed_logs,
                   success_log, writes, failed_file, error_logged>>

\* lines 58-66: one POST of session.post; the first one follows the set-up
\* of the session, the later ones are the retries of the adapter
Attempt ==
    /\ pc = "send"
    /\ \E following \in Outcomes :
         LET retries == IF attempts = 0
                        THEN AdapterRetries(endpoint)
                        ELSE [AdapterRetries(endpoint) EXCEPT !.total = retries_total]
             outcome == server_next
             again == outcome.kind = "exc" \/ is_retry(retries, outcome)
             exhausted == is_exhausted(retries.total - 1)
         IN /\ attempts' = attempts + 1
            /\ last_outcome' = outcome
            /\ first_503_then_201' =
                   IF attempts = 0
                   THEN outcome = Unavailable /\ following = Created
                   ELSE first_503_then_201
            /\ IF again /\ ~exhausted
               THEN /\ retries_total' = retries.total - 1
                    /\ server_next' = following
                    /\ pc' = "send"
                    /\ UNCHANGED response
               ELSE /\ retries_total' = retries.total
                    /\ server_next' = following
                    /\ pc' = "record"
                    /\ response' = IF ~again THEN outcome
                                   ELSE IF outcome.kind = "exc" THEN outcome
                                   ELSE PyExc("RetryError")
    /\ UNCHANGED <<config_readable, config_data, parent_file, child_rows, parent_df,
                   repeat_groups, endpoint, idx, groups_payload, payload,
                   failed_logs, success_log, writes, failed_file, error_logged>>

\* lines 271-281: the outcome of the row, then the next row
Record ==
    /\ pc = "record"
    /\ failed_logs' = failed_logs \o RowFailures(idx, response)
    /\ success_log' = success_log \o RowSuccesses(idx, response)
    /\ IF idx + 1 < Len(parent_df)
       THEN idx' = idx + 1 /\ pc' = "build"
       ELSE idx' = idx /\ pc' = "save"
    /\ attempts' = 0
    /\ retries_total' = 0
    /\ last_outcome' = NoOutcome
    /\ server_next' = NoOutcome
    /\ first_503_then_201' = FALSE
    /\ UNCHANGED <<config_readable, config_data, parent_file, child_rows, parent_df,
                   repeat_groups, endpoint, groups_payload, payload, response,
                   writes, failed_file, error_logged>>

\* lines 283-289: the failure table
Save ==
    /\ pc = "save"
    /\ pc' = "done"
    /\ IF ShouldSave(failed_logs)
       THEN \E written \in BOOLEAN :
              /\ writes' = writes + 1
              /\ failed_file' = IF written
                                THEN [exists |-> TRUE, rows |-> failed_logs]
                                ELSE failed_file
              /\ error_logged' = ~written
       ELSE UNCHANGED <<writes, failed_file, error_logged>>
    /\ UNCHANGED <<config_readable, config_data, parent_file, child_rows, parent_df,
                   repeat_groups, endpoint, idx, groups_payload, payload,
                   retries_total, attempts, last_outcome, server_next,
                   first_503_then_201, response, failed_logs, success_log>>

----------------------------------------------------------------------------
(* The run of main over small files *)

RunParentRows == <<ParentRow(PyStr("P1")), ParentRow(PyStr("P2")),
                   ParentRow(PyStr("P1")), ParentRow(PyStr("P3"))>>

RunParentFiles ==
    {[readable |-> FALSE, rows |-> <<>>]}
    \cup {[readable |-> TRUE, rows |-> SubSeq(RunParentRows, 1, n)] : n \in 0..MaxRows}

RunGroupConfigs ==
    {Absent} \cup {PyDict("members" :> leaf) : leaf \in LeafConfigs}

RunConfigs ==
    {ConfigData(groups, ChildPath, url) :
        groups \in RunGroupConfigs, url \in Endpoints \cup {NoEndpoint}}
    \cup {ConfigData(Absent, MissingPath, NoEndpoint)}

RunChildTables == {<<>>, << ChildRow(PyStr("P2"), PyStr("Ann")) >>}

Init ==
    \E readable \in BOOLEAN, config \in RunConfigs,
       parent \in RunParentFiles, children \in RunChildTables :
        InitWith(readable, config, parent, children)

Next == Start \/ BuildRow \/ Attempt \/ Record \/ Save

Spec == Init /\ [][Next]_vars

----------------------------------------------------------------------------
(* The payload of one parent row, over configuration trees and child tables *)

BuildParentFiles ==
    {[readable |-> TRUE, rows |-> <<ParentRow(id)>>] : id \in {PyStr("P1"), PyNaN}}

InitBuild ==
    \E groups \in RepeatGroupConfigs, parent \in BuildParentFiles,
       children \in ChildTables :
        InitWith(TRUE, ConfigData(groups, ChildPath, NoEndpoint), parent, children)

NextBuild == Start \/ BuildRow

SpecBuild == InitBuild /\ [][NextBuild]_vars

----------------------------------------------------------------------------
(* Properties of the run *)

\* the rows whose outcome main has recorded
Processed ==
    CASE pc \in {"save", "done"} -> Len(parent_df)
      [] pc \in {"build", "send", "record"} -> idx
      [] OTHER -> Len(failed_logs) + Len(success_log)

FailuresOf(row) == {i \in DOMAIN failed_logs : failed_logs[i][1] = row}
SuccessesOf(row) == {i \in DOMAIN success_log : success_log[i] = row}

\* C1: once the row loop has run over the N rows of the parent table, the
\* Failure Records and the logged successes together number N, and every row
\* has exactly one of the two; while the loop runs the same holds of the
\* rows recorded so far, and no other row has an outcome.
C1_OneOutcomePerRow ==
    /\ Len(failed_logs) + Len(success_log) = Processed
    /\ \A row \in 0..(Len(parent_df) - 1) :
          Cardinality(FailuresOf(row)) + Cardinality(SuccessesOf(row))
              = IF row < Processed THEN 1 ELSE 0

C1_Witness ==
    /\ pc = "done"
    /\ Len(parent_df) = 2
    /\ Len(failed_logs) = 1
    /\ Len(success_log) = 1

\* C2: a row whose POST ends with an HTTP response of a status other than
\* 201 gets the Failure Record (row index, that status, that body), and main
\* goes on to the next row.
C2_StatusRecorded ==
    [][ (pc = "record" /\ response.kind = "resp" /\ response.n # 201)
        => /\ failed_logs' = Append(failed_logs, <<idx, PyInt(response.n), response.s>>)
           /\ pc' \in {"build", "save"} ]_vars

\* C3: a row whose send raises gets exactly one Failure Record, with the row
\* index, None as status code and the non-empty string form of the error; no
\* success is logged for it and main goes on to the next row, or to the
\* failure table after the last row.
C3_NetworkFailureRecorded ==
    [][ (pc = "record" /\ response.kind = "exc")
        => /\ Len(failed_logs') = Len(failed_logs) + 1
           /\ SubSeq(failed_logs', 1, Len(failed_logs)) = failed_logs
           /\ failed_logs'[Len(failed_logs')][1] = idx
           /\ failed_logs'[Len(failed_logs')][2] = PyNone
           /\ failed_logs'[Len(failed_logs')][3] = str(response)
           /\ failed_logs'[Len(failed_logs')][3] # ""
           /\ success_log' = success_log
           /\ IF idx + 1 < Len(parent_df)
              THEN pc' = "build" /\ idx' = idx + 1
              ELSE pc' = "save" ]_vars

C3_Witness ==
    /\ pc = "send"
    /\ idx = 1
    /\ failed_logs = << <<0, PyNone, ExcMessage("ConnectionError")>> >>

\* C4: a row whose first POST the server answers with 503 and whose second
\* POST it answers with 201 is logged as a success and gets no Failure
\* Record, whatever the endpoint.
C4_RetriedToSuccess ==
    [][ (pc = "record" /\ first_503_then_201)
        => /\ success_log' = Append(success_log, idx)
           /\ failed_logs' = failed_logs ]_vars

\* C5 as stated: at most 5 POSTs are issued for one parent row.
C5_AtMostFiveAttempts == attempts <= 5

\* C5 amended: at most 6 POSTs for a row, the first and 5 retries; a POST is
\* repeated only for an https endpoint and only after a network-level
\* failure, an answer of 500, 502, 503 or 504, or an answer of 413, 429 or
\* 503 that carries Retry-After.
C5_AtMostSixAttempts ==
    /\ attempts <= 6
    /\ (pc = "send" /\ attempts > 0)
          => /\ endpoint.scheme = "https"
             /\ \/ last_outcome.kind = "exc"
                \/ /\ last_outcome.kind = "resp"
                   /\ last_outcome.n \in {500, 502, 503, 504}
                \/ /\ last_outcome.kind = "resp"
                   /\ last_outcome.n \in {413, 429, 503}
                   /\ "Retry-After" \in DOMAIN last_outcome.items

C5_Witness ==
    /\ pc = "record"
    /\ attempts = 6
    /\ last_outcome = Unavailable
    /\ response = PyExc("RetryError")

\* C8: to_excel is called at most once, never before the last row's outcome
\* is recorded, and at the end of the run it has been called exactly when
\* there is a Failure Record; the table written is the Failure Records, and
\* a failed write is logged and the run completes.
C8_FailureTableOnce ==
    /\ writes <= 1
    /\ pc # "done" => writes = 0 /\ ~failed_file.exists /\ ~error_logged
    /\ pc = "done" => (writes = 1 <=> failed_logs # <<>>)
    /\ pc = "done" => (writes = 1 <=> (failed_file.exists \/ error_logged))
    /\ failed_file.exists => failed_file.rows = failed_logs

C8_Witness ==
    /\ pc = "done"
    /\ writes = 1
    /\ error_logged
    /\ Len(failed_logs) = 2

\* C9: with the configuration and the parent table readable and the repeat
\* groups configured, no leaf stops the run: main neither returns early nor
\* lets an exception out.
C9_LeafNeverStopsRun ==
    (config_readable /\ parent_file.readable
        /\ config_data.repeat_groups.kind # "absent")
    => pc \notin {"raised", "returned"}

----------------------------------------------------------------------------
(* Properties of the payload *)

\* a leaf of the resolved tree: it carries a loaded table
IsLeafNode(node) ==
    IsDict(node) /\ Has(node, "data") /\ node.items["data"].kind = "df"

RECURSIVE LeavesWellFormed(_)
\* every leaf names a filter column and mapped columns that its table has
LeavesWellFormed(tree) ==
    \A key \in DOMAIN tree.items :
        LET node == tree.items[key]
        IN IF IsLeafNode(node)
           THEN /\ node.items["filter_column"].s \in ChildColumns
                /\ \A f \in DOMAIN node.items["fields"].items :
                      node.items["fields"].items[f].s \in ChildColumns
           ELSE IsDict(node) => LeavesWellFormed(node)

RECURSIVE SameShape(_, _)
\* the payload is a mapping with the keys of the tree, a sequence of field
\* mappings under a leaf and a mapping of the same shape under a container
SameShape(tree, pl) ==
    /\ pl.kind = "dict"
    /\ DOMAIN pl.items = DOMAIN tree.items
    /\ \A key \in DOMAIN tree.items :
          LET node == tree.items[key]
          IN IF IsLeafNode(node)
             THEN /\ pl.items[key].kind = "list"
                  /\ \A j \in DOMAIN pl.items[key].elems :
                        /\ pl.items[key].elems[j].kind = "dict"
                        /\ DOMAIN pl.items[key].elems[j].items
                              = DOMAIN node.items["fields"].items
             ELSE SameShape(node, pl.items[key])

\* C6: for a resolved tree whose leaves name columns of their tables, the
\* group payload of a parent row has the shape of the tree.
C6_ShapePreserved ==
    (pc \in {"send", "raised"} /\ LeavesWellFormed(repeat_groups))
    => SameShape(repeat_groups, groups_payload)

\* the indices of the child rows whose filter-column value is the parent's ID
Matching(parent_record, filter_column) ==
    {i \in DOMAIN child_rows :
        /\ ~isna(parent_record["ID"])
        /\ child_rows[i][filter_column] = parent_record["ID"]}

\* the j-th smallest index of a set of indices
Nth(indices, j) ==
    CHOOSE i \in indices : Cardinality({m \in indices : m <= i}) = j

\* the text of a cell: empty for a missing value
CellText(cell) == IF cell.kind = "nan" THEN "" ELSE cell.s

LeafPayloadRight(parent_record, node, pl) ==
    LET matching == Matching(parent_record, node.items["filter_column"].s)
        fields == node.items["fields"].items
    IN /\ pl.kind = "list"
       /\ Len(pl.elems) = Cardinality(matching)
       /\ \A j \in 1..Len(pl.elems) :
             /\ pl.elems[j].kind = "dict"
             /\ DOMAIN pl.elems[j].items = DOMAIN fields
             /\ \A f \in DOMAIN fields :
                   pl.elems[j].items[f]
                     = PyStr(CellText(child_rows[Nth(matching, j)][fields[f].s]))

RECURSIVE LeavesRight(_, _, _)
LeavesRight(parent_record, tree, pl) ==
    /\ pl.kind = "dict"
    /\ \A key \in DOMAIN tree.items :
          LET node == tree.items[key]
          IN IsDict(node) =>
               /\ Has(pl, key)
               /\ IF IsLeafNode(node)
                  THEN LeafPayloadRight(parent_record, node, pl.items[key])
                  ELSE LeavesRight(parent_record, node, pl.items[key])

\* C7: in the group payload built for a parent row, every leaf of the
\* resolved tree has its key, and under it the sequence of the field mappings
\* of exactly the child rows whose filter-column value is the parent's ID, in
\* table order; it is the empty sequence when no child row matches.
C7_LeafHoldsMatchingChildren ==
    pc = "send" => LeavesRight(parent_df[idx + 1], repeat_groups, groups_payload)

C7_Witness ==
    /\ pc = "send"
    /\ Len(child_rows) = 2
    /\ parent_df[1]["ID"] = PyStr("P1")
    /\ config_data.repeat_groups
          = PyDict("g" :> PyDict(("g" :> GoodLeaf) @@ ("h" :> ExplicitLeaf)))
    /\ groups_payload
          = PyDict("g" :> PyDict(("g" :> PyList(<<>>)) @@ ("h" :> PyList(<<>>))))

\* C10: the submission keeps the parent's ID and family key, the formhub
\* object, the form version and the meta object, and every group payload.
C10_FieldsKept ==
    pc = "send" =>
        LET submission == payload.items["submission"].items
        IN /\ submission["ID"] = PyStr(safe_str(parent_df[idx + 1]["ID"]))
           /\ submission["Family_ID"] = PyStr(safe_str(parent_df[idx + 1]["Family_ID"]))
           /\ submission["formhub"] = PyDict("uuid" :> PyStr(config_data.formhub_uuid))
           /\ submission["__version__"] = PyStr(config_data.formhub_version)
           /\ submission["meta"] = PyDict("instanceID" :> InstanceID(idx))
           /\ \A key \in DOMAIN groups_payload.items :
                 submission[key] = groups_payload.items[key]

====
